---- MODULE Spec2Model ----
(***************************************************************************)
(* A model of enform (src/main.py): the codeform schema parser             *)
(* (FormParser), the field codec (Field.encode / Field.decode /            *)
(* Field.size) and the form codec (Form.encode / Form.decode).             *)
(*                                                                         *)
(* Representation.                                                         *)
(*  - A Python str (a schema, a value text, a name, an enum item) is a     *)
(*    sequence of Unicode code points; a buffer is a sequence of bytes     *)
(*    0..255; bitstring's bit arrays are sequences of 0/1.                 *)
(*  - A Field is [name, type, bits, items]: the source's Field.value is    *)
(*    the bit size for "i"/"f" (kept in bits) and the item list for "e"    *)
(*    (kept in items); it is None for "s".                                 *)
(*  - A Python float is [cls, sign, exp, sig]: cls is "zero", "finite",    *)
(*    "inf" or "nan"; a finite value is (-1)^sign * 1.sig * 2^exp with sig *)
(*    the fraction bits after the leading one, trailing zeros removed.     *)
(***************************************************************************)
EXTENDS Integers, Sequences, FiniteSets, TLC

VARIABLES
    \* FormParser instance (src/main.py:91-95)
    source, length, cursor, char,
    \* control state and locals of a running parse_form call
    pc, ret, start, field_name, items, form, result,
    \* the number of parse_form calls made on the instance
    calls,
    \* Form.encode / Form.decode (src/main.py:59-88)
    fields, inputs, value, epc, buf, offset, obj, didx, dpc

parserVars == <<source, length, cursor, char, pc, ret, start, field_name, items, form, result, calls>>
codecVars == <<fields, inputs, value, epc, buf, offset, obj, didx, dpc>>
vars == <<source, length, cursor, char, pc, ret, start, field_name, items, form, result, calls,
          fields, inputs, value, epc, buf, offset, obj, didx, dpc>>

(***************************************************************************)
(* Bounds of the model.                                                    *)
(***************************************************************************)
\* number of comma-joined schema texts in a schema handed to parse_form
MaxSchemaTexts == 1
\* number of parse_form calls made on one FormParser
MaxCalls == 3
\* number of fields of a form handed to Form.encode / Form.decode
MaxFormFields == 2
\* largest enum item count of the single-field forms
MaxEnumItems == 257
\* length of the buffers handed directly to Form.decode
MaxBufLen == 4

(***************************************************************************)
(* Characters are code points.  Ord names the ASCII characters the model   *)
(* writes.  str.isalpha, str.isnumeric and str.isdecimal follow the        *)
(* Unicode character database of the interpreter (Unicode 14.0): the       *)
(* tables list, above ASCII, the ranges of code points each one accepts.   *)
(***************************************************************************)
Ord(c) ==
    CASE c = "a" -> 97 [] c = "b" -> 98 [] c = "c" -> 99 [] c = "d" -> 100
      [] c = "e" -> 101 [] c = "f" -> 102 [] c = "g" -> 103 [] c = "h" -> 104
      [] c = "i" -> 105 [] c = "j" -> 106 [] c = "k" -> 107 [] c = "l" -> 108
      [] c = "m" -> 109 [] c = "n" -> 110 [] c = "o" -> 111 [] c = "p" -> 112
      [] c = "q" -> 113 [] c = "r" -> 114 [] c = "s" -> 115 [] c = "t" -> 116
      [] c = "u" -> 117 [] c = "v" -> 118 [] c = "w" -> 119 [] c = "x" -> 120
      [] c = "y" -> 121 [] c = "z" -> 122
      [] c = "0" -> 48 [] c = "1" -> 49 [] c = "2" -> 50 [] c = "3" -> 51
      [] c = "4" -> 52 [] c = "5" -> 53 [] c = "6" -> 54 [] c = "7" -> 55
      [] c = "8" -> 56 [] c = "9" -> 57
      [] c = ":" -> 58 [] c = "," -> 44 [] c = "[" -> 91 [] c = "]" -> 93
      [] c = ";" -> 59 [] c = "_" -> 95 [] c = "." -> 46 [] c = "-" -> 45
      [] c = "+" -> 43

\* a text written as a tuple of one-character strings
Text(t) == [i \in 1..Len(t) |-> Ord(t[i])]

\* the sentinel '\0' that advance() leaves in self.char at the end of the input
NUL == 0

\* self.char = "" after the constructor: no character at all
NoChar == -1

\* the code points above ASCII that str.isalpha accepts: the ranges around c
AlphaRanges(c) ==
    CASE c <= 1416 ->
           { <<170, 170>>, <<181, 181>>, <<186, 186>>, <<192, 214>>, <<216, 246>>,
             <<248, 705>>, <<710, 721>>, <<736, 740>>, <<748, 748>>, <<750, 750>>,
             <<880, 884>>, <<886, 887>>, <<890, 893>>, <<895, 895>>, <<902, 902>>,
             <<904, 906>>, <<908, 908>>, <<910, 929>>, <<931, 1013>>, <<1015, 1153>>,
             <<1162, 1327>>, <<1329, 1366>>, <<1369, 1369>>, <<1376, 1416>> }
      [] c <= 2183 ->
           { <<1488, 1514>>, <<1519, 1522>>, <<1568, 1610>>, <<1646, 1647>>,
             <<1649, 1747>>, <<1749, 1749>>, <<1765, 1766>>, <<1774, 1775>>,
             <<1786, 1788>>, <<1791, 1791>>, <<1808, 1808>>, <<1810, 1839>>,
             <<1869, 1957>>, <<1969, 1969>>, <<1994, 2026>>, <<2036, 2037>>,
             <<2042, 2042>>, <<2048, 2069>>, <<2074, 2074>>, <<2084, 2084>>,
             <<2088, 2088>>, <<2112, 2136>>, <<2144, 2154>>, <<2160, 2183>> }
      [] c <= 2611 ->
           { <<2185, 2190>>, <<2208, 2249>>, <<2308, 2361>>, <<2365, 2365>>,
             <<2384, 2384>>, <<2392, 2401>>, <<2417, 2432>>, <<2437, 2444>>,
             <<2447, 2448>>, <<2451, 2472>>, <<2474, 2480>>, <<2482, 2482>>,
             <<2486, 2489>>, <<2493, 2493>>, <<2510, 2510>>, <<2524, 2525>>,
             <<2527, 2529>>, <<2544, 2545>>, <<2556, 2556>>, <<2565, 2570>>,
             <<2575, 2576>>, <<2579, 2600>>, <<2602, 2608>>, <<2610, 2611>> }
      [] c <= 2913 ->
           { <<2613, 2614>>, <<2616, 2617>>, <<2649, 2652>>, <<2654, 2654>>,
             <<2674, 2676>>, <<2693, 2701>>, <<2703, 2705>>, <<2707, 2728>>,
             <<2730, 2736>>, <<2738, 2739>>, <<2741, 2745>>, <<2749, 2749>>,
             <<2768, 2768>>, <<2784, 2785>>, <<2809, 2809>>, <<2821, 2828>>,
             <<2831, 2832>>, <<2835, 2856>>, <<2858, 2864>>, <<2866, 2867>>,
             <<2869, 2873>>, <<2877, 2877>>, <<2908, 2909>>, <<2911, 2913>> }
      [] c <= 3240 ->
           { <<2929, 2929>>, <<2947, 2947>>, <<2949, 2954>>, <<2958, 2960>>,
             <<2962, 2965>>, <<2969, 2970>>, <<2972, 2972>>, <<2974, 2975>>,
             <<2979, 2980>>, <<2984, 2986>>, <<2990, 3001>>, <<3024, 3024>>,
             <<3077, 3084>>, <<3086, 3088>>, <<3090, 3112>>, <<3114, 3129>>,
             <<3133, 3133>>, <<3160, 3162>>, <<3165, 3165>>, <<3168, 3169>>,
             <<3200, 3200>>, <<3205, 3212>>, <<3214, 3216>>, <<3218, 3240>> }
      [] c <= 3716 ->
           { <<3242, 3251>>, <<3253, 3257>>, <<3261, 3261>>, <<3293, 3294>>,
             <<3296, 3297>>, <<3313, 3314>>, <<3332, 3340>>, <<3342, 3344>>,
             <<3346, 3386>>, <<3389, 3389>>, <<3406, 3406>>, <<3412, 3414>>,
             <<3423, 3425>>, <<3450, 3455>>, <<3461, 3478>>, <<3482, 3505>>,
             <<3507, 3515>>, <<3517, 3517>>, <<3520, 3526>>, <<3585, 3632>>,
             <<3634, 3635>>, <<3648, 3654>>, <<3713, 3714>>, <<3716, 3716>> }
      [] c <= 4295 ->
           { <<3718, 3722>>, <<3724, 3747>>, <<3749, 3749>>, <<3751, 3760>>,
             <<3762, 3763>>, <<3773, 3773>>, <<3776, 3780>>, <<3782, 3782>>,
             <<3804, 3807>>, <<3840, 3840>>, <<3904, 3911>>, <<3913, 3948>>,
             <<3976, 3980>>, <<4096, 4138>>, <<4159, 4159>>, <<4176, 4181>>,
             <<4186, 4189>>, <<4193, 4193>>, <<4197, 4198>>, <<4206, 4208>>,
             <<4213, 4225>>, <<4238, 4238>>, <<4256, 4293>>, <<4295, 4295>> }
      [] c <= 5786 ->
           { <<4301, 4301>>, <<4304, 4346>>, <<4348, 4680>>, <<4682, 4685>>,
             <<4688, 4694>>, <<4696, 4696>>, <<4698, 4701>>, <<4704, 4744>>,
             <<4746, 4749>>, <<4752, 4784>>, <<4786, 4789>>, <<4792, 4798>>,
             <<4800, 4800>>, <<4802, 4805>>, <<4808, 4822>>, <<4824, 4880>>,
             <<4882, 4885>>, <<4888, 4954>>, <<4992, 5007>>, <<5024, 5109>>,
             <<5112, 5117>>, <<5121, 5740>>, <<5743, 5759>>, <<5761, 5786>> }
      [] c <= 6963 ->
           { <<5792, 5866>>, <<5873, 5880>>, <<5888, 5905>>, <<5919, 5937>>,
             <<5952, 5969>>, <<5984, 5996>>, <<5998, 6000>>, <<6016, 6067>>,
             <<6103, 6103>>, <<6108, 6108>>, <<6176, 6264>>, <<6272, 6276>>,
             <<6279, 6312>>, <<6314, 6314>>, <<6320, 6389>>, <<6400, 6430>>,
             <<6480, 6509>>, <<6512, 6516>>, <<6528, 6571>>, <<6576, 6601>>,
             <<6656, 6678>>, <<6688, 6740>>, <<6823, 6823>>, <<6917, 6963>> }
      [] c <= 8061 ->
           { <<6981, 6988>>, <<7043, 7072>>, <<7086, 7087>>, <<7098, 7141>>,
             <<7168, 7203>>, <<7245, 7247>>, <<7258, 7293>>, <<7296, 7304>>,
             <<7312, 7354>>, <<7357, 7359>>, <<7401, 7404>>, <<7406, 7411>>,
             <<7413, 7414>>, <<7418, 7418>>, <<7424, 7615>>, <<7680, 7957>>,
             <<7960, 7965>>, <<7968, 8005>>, <<8008, 8013>>, <<8016, 8023>>,
             <<8025, 8025>>, <<8027, 8027>>, <<8029, 8029>>, <<8031, 8061>> }
      [] c <= 8511 ->
           { <<8064, 8116>>, <<8118, 8124>>, <<8126, 8126>>, <<8130, 8132>>,
             <<8134, 8140>>, <<8144, 8147>>, <<8150, 8155>>, <<8160, 8172>>,
             <<8178, 8180>>, <<8182, 8188>>, <<8305, 8305>>, <<8319, 8319>>,
             <<8336, 8348>>, <<8450, 8450>>, <<8455, 8455>>, <<8458, 8467>>,
             <<8469, 8469>>, <<8473, 8477>>, <<8484, 8484>>, <<8486, 8486>>,
             <<8488, 8488>>, <<8490, 8493>>, <<8495, 8505>>, <<8508, 8511>> }
      [] c <= 12348 ->
           { <<8517, 8521>>, <<8526, 8526>>, <<8579, 8580>>, <<11264, 11492>>,
             <<11499, 11502>>, <<11506, 11507>>, <<11520, 11557>>, <<11559, 11559>>,
             <<11565, 11565>>, <<11568, 11623>>, <<11631, 11631>>, <<11648, 11670>>,
             <<11680, 11686>>, <<11688, 11694>>, <<11696, 11702>>, <<11704, 11710>>,
             <<11712, 11718>>, <<11720, 11726>>, <<11728, 11734>>, <<11736, 11742>>,
             <<11823, 11823>>, <<12293, 12294>>, <<12337, 12341>>, <<12347, 12348>> }
      [] c <= 43009 ->
           { <<12353, 12438>>, <<12445, 12447>>, <<12449, 12538>>, <<12540, 12543>>,
             <<12549, 12591>>, <<12593, 12686>>, <<12704, 12735>>, <<12784, 12799>>,
             <<13312, 19903>>, <<19968, 42124>>, <<42192, 42237>>, <<42240, 42508>>,
             <<42512, 42527>>, <<42538, 42539>>, <<42560, 42606>>, <<42623, 42653>>,
             <<42656, 42725>>, <<42775, 42783>>, <<42786, 42888>>, <<42891, 42954>>,
             <<42960, 42961>>, <<42963, 42963>>, <<42965, 42969>>, <<42994, 43009>> }
      [] c <= 43702 ->
           { <<43011, 43013>>, <<43015, 43018>>, <<43020, 43042>>, <<43072, 43123>>,
             <<43138, 43187>>, <<43250, 43255>>, <<43259, 43259>>, <<43261, 43262>>,
             <<43274, 43301>>, <<43312, 43334>>, <<43360, 43388>>, <<43396, 43442>>,
             <<43471, 43471>>, <<43488, 43492>>, <<43494, 43503>>, <<43514, 43518>>,
             <<43520, 43560>>, <<43584, 43586>>, <<43588, 43595>>, <<43616, 43638>>,
             <<43642, 43642>>, <<43646, 43695>>, <<43697, 43697>>, <<43701, 43702>> }
      [] c <= 64310 ->
           { <<43705, 43709>>, <<43712, 43712>>, <<43714, 43714>>, <<43739, 43741>>,
             <<43744, 43754>>, <<43762, 43764>>, <<43777, 43782>>, <<43785, 43790>>,
             <<43793, 43798>>, <<43808, 43814>>, <<43816, 43822>>, <<43824, 43866>>,
             <<43868, 43881>>, <<43888, 44002>>, <<44032, 55203>>, <<55216, 55238>>,
             <<55243, 55291>>, <<63744, 64109>>, <<64112, 64217>>, <<64256, 64262>>,
             <<64275, 64279>>, <<64285, 64285>>, <<64287, 64296>>, <<64298, 64310>> }
      [] c <= 65629 ->
           { <<64312, 64316>>, <<64318, 64318>>, <<64320, 64321>>, <<64323, 64324>>,
             <<64326, 64433>>, <<64467, 64829>>, <<64848, 64911>>, <<64914, 64967>>,
             <<65008, 65019>>, <<65136, 65140>>, <<65142, 65276>>, <<65313, 65338>>,
             <<65345, 65370>>, <<65382, 65470>>, <<65474, 65479>>, <<65482, 65487>>,
             <<65490, 65495>>, <<65498, 65500>>, <<65536, 65547>>, <<65549, 65574>>,
             <<65576, 65594>>, <<65596, 65597>>, <<65599, 65613>>, <<65616, 65629>> }
      [] c <= 67382 ->
           { <<65664, 65786>>, <<66176, 66204>>, <<66208, 66256>>, <<66304, 66335>>,
             <<66349, 66368>>, <<66370, 66377>>, <<66384, 66421>>, <<66432, 66461>>,
             <<66464, 66499>>, <<66504, 66511>>, <<66560, 66717>>, <<66736, 66771>>,
             <<66776, 66811>>, <<66816, 66855>>, <<66864, 66915>>, <<66928, 66938>>,
             <<66940, 66954>>, <<66956, 66962>>, <<66964, 66965>>, <<66967, 66977>>,
             <<66979, 66993>>, <<66995, 67001>>, <<67003, 67004>>, <<67072, 67382>> }
      [] c <= 68220 ->
           { <<67392, 67413>>, <<67424, 67431>>, <<67456, 67461>>, <<67463, 67504>>,
             <<67506, 67514>>, <<67584, 67589>>, <<67592, 67592>>, <<67594, 67637>>,
             <<67639, 67640>>, <<67644, 67644>>, <<67647, 67669>>, <<67680, 67702>>,
             <<67712, 67742>>, <<67808, 67826>>, <<67828, 67829>>, <<67840, 67861>>,
             <<67872, 67897>>, <<67968, 68023>>, <<68030, 68031>>, <<68096, 68096>>,
             <<68112, 68115>>, <<68117, 68119>>, <<68121, 68149>>, <<68192, 68220>> }
      [] c <= 69864 ->
           { <<68224, 68252>>, <<68288, 68295>>, <<68297, 68324>>, <<68352, 68405>>,
             <<68416, 68437>>, <<68448, 68466>>, <<68480, 68497>>, <<68608, 68680>>,
             <<68736, 68786>>, <<68800, 68850>>, <<68864, 68899>>, <<69248, 69289>>,
             <<69296, 69297>>, <<69376, 69404>>, <<69415, 69415>>, <<69424, 69445>>,
             <<69488, 69505>>, <<69552, 69572>>, <<69600, 69622>>, <<69635, 69687>>,
             <<69745, 69746>>, <<69749, 69749>>, <<69763, 69807>>, <<69840, 69864>> }
      [] c <= 70461 ->
           { <<69891, 69926>>, <<69956, 69956>>, <<69959, 69959>>, <<69968, 70002>>,
             <<70006, 70006>>, <<70019, 70066>>, <<70081, 70084>>, <<70106, 70106>>,
             <<70108, 70108>>, <<70144, 70161>>, <<70163, 70187>>, <<70272, 70278>>,
             <<70280, 70280>>, <<70282, 70285>>, <<70287, 70301>>, <<70303, 70312>>,
             <<70320, 70366>>, <<70405, 70412>>, <<70415, 70416>>, <<70419, 70440>>,
             <<70442, 70448>>, <<70450, 70451>>, <<70453, 70457>>, <<70461, 70461>> }
      [] c <= 71999 ->
           { <<70480, 70480>>, <<70493, 70497>>, <<70656, 70708>>, <<70727, 70730>>,
             <<70751, 70753>>, <<70784, 70831>>, <<70852, 70853>>, <<70855, 70855>>,
             <<71040, 71086>>, <<71128, 71131>>, <<71168, 71215>>, <<71236, 71236>>,
             <<71296, 71338>>, <<71352, 71352>>, <<71424, 71450>>, <<71488, 71494>>,
             <<71680, 71723>>, <<71840, 71903>>, <<71935, 71942>>, <<71945, 71945>>,
             <<71948, 71955>>, <<71957, 71958>>, <<71960, 71983>>, <<71999, 71999>> }
      [] c <= 73112 ->
           { <<72001, 72001>>, <<72096, 72103>>, <<72106, 72144>>, <<72161, 72161>>,
             <<72163, 72163>>, <<72192, 72192>>, <<72203, 72242>>, <<72250, 72250>>,
             <<72272, 72272>>, <<72284, 72329>>, <<72349, 72349>>, <<72368, 72440>>,
             <<72704, 72712>>, <<72714, 72750>>, <<72768, 72768>>, <<72818, 72847>>,
             <<72960, 72966>>, <<72968, 72969>>, <<72971, 73008>>, <<73030, 73030>>,
             <<73056, 73061>>, <<73063, 73064>>, <<73066, 73097>>, <<73112, 73112>> }
      [] c <= 101640 ->
           { <<73440, 73458>>, <<73648, 73648>>, <<73728, 74649>>, <<74880, 75075>>,
             <<77712, 77808>>, <<77824, 78894>>, <<82944, 83526>>, <<92160, 92728>>,
             <<92736, 92766>>, <<92784, 92862>>, <<92880, 92909>>, <<92928, 92975>>,
             <<92992, 92995>>, <<93027, 93047>>, <<93053, 93071>>, <<93760, 93823>>,
             <<93952, 94026>>, <<94032, 94032>>, <<94099, 94111>>, <<94176, 94177>>,
             <<94179, 94179>>, <<94208, 100343>>, <<100352, 101589>>, <<101632, 101640>> }
      [] c <= 120092 ->
           { <<110576, 110579>>, <<110581, 110587>>, <<110589, 110590>>,
             <<110592, 110882>>, <<110928, 110930>>, <<110948, 110951>>,
             <<110960, 111355>>, <<113664, 113770>>, <<113776, 113788>>,
             <<113792, 113800>>, <<113808, 113817>>, <<119808, 119892>>,
             <<119894, 119964>>, <<119966, 119967>>, <<119970, 119970>>,
             <<119973, 119974>>, <<119977, 119980>>, <<119982, 119993>>,
             <<119995, 119995>>, <<119997, 120003>>, <<120005, 120069>>,
             <<120071, 120074>>, <<120077, 120084>>, <<120086, 120092>> }
      [] c <= 124902 ->
           { <<120094, 120121>>, <<120123, 120126>>, <<120128, 120132>>,
             <<120134, 120134>>, <<120138, 120144>>, <<120146, 120485>>,
             <<120488, 120512>>, <<120514, 120538>>, <<120540, 120570>>,
             <<120572, 120596>>, <<120598, 120628>>, <<120630, 120654>>,
             <<120656, 120686>>, <<120688, 120712>>, <<120714, 120744>>,
             <<120746, 120770>>, <<120772, 120779>>, <<122624, 122654>>,
             <<123136, 123180>>, <<123191, 123197>>, <<123214, 123214>>,
             <<123536, 123565>>, <<123584, 123627>>, <<124896, 124902>> }
      [] c <= 126553 ->
           { <<124904, 124907>>, <<124909, 124910>>, <<124912, 124926>>,
             <<124928, 125124>>, <<125184, 125251>>, <<125259, 125259>>,
             <<126464, 126467>>, <<126469, 126495>>, <<126497, 126498>>,
             <<126500, 126500>>, <<126503, 126503>>, <<126505, 126514>>,
             <<126516, 126519>>, <<126521, 126521>>, <<126523, 126523>>,
             <<126530, 126530>>, <<126535, 126535>>, <<126537, 126537>>,
             <<126539, 126539>>, <<126541, 126543>>, <<126545, 126546>>,
             <<126548, 126548>>, <<126551, 126551>>, <<126553, 126553>> }
      [] OTHER ->
           { <<126555, 126555>>, <<126557, 126557>>, <<126559, 126559>>,
             <<126561, 126562>>, <<126564, 126564>>, <<126567, 126570>>,
             <<126572, 126578>>, <<126580, 126583>>, <<126585, 126588>>,
             <<126590, 126590>>, <<126592, 126601>>, <<126603, 126619>>,
             <<126625, 126627>>, <<126629, 126633>>, <<126635, 126651>>,
             <<131072, 173791>>, <<173824, 177976>>, <<177984, 178205>>,
             <<178208, 183969>>, <<183984, 191456>>, <<194560, 195101>>,
             <<196608, 201546>> }

\* the code points above ASCII that str.isnumeric accepts: the ranges around c
NumericRanges(c) ==
    CASE c <= 4169 ->
           { <<178, 179>>, <<185, 185>>, <<188, 190>>, <<1632, 1641>>, <<1776, 1785>>,
             <<1984, 1993>>, <<2406, 2415>>, <<2534, 2543>>, <<2548, 2553>>,
             <<2662, 2671>>, <<2790, 2799>>, <<2918, 2927>>, <<2930, 2935>>,
             <<3046, 3058>>, <<3174, 3183>>, <<3192, 3198>>, <<3302, 3311>>,
             <<3416, 3422>>, <<3430, 3448>>, <<3558, 3567>>, <<3664, 3673>>,
             <<3792, 3801>>, <<3872, 3891>>, <<4160, 4169>> }
      [] c <= 12295 ->
           { <<4240, 4249>>, <<4969, 4988>>, <<5870, 5872>>, <<6112, 6121>>,
             <<6128, 6137>>, <<6160, 6169>>, <<6470, 6479>>, <<6608, 6618>>,
             <<6784, 6793>>, <<6800, 6809>>, <<6992, 7001>>, <<7088, 7097>>,
             <<7232, 7241>>, <<7248, 7257>>, <<8304, 8304>>, <<8308, 8313>>,
             <<8320, 8329>>, <<8528, 8578>>, <<8581, 8585>>, <<9312, 9371>>,
             <<9450, 9471>>, <<10102, 10131>>, <<11517, 11517>>, <<12295, 12295>> }
      [] c <= 20237 ->
           { <<12321, 12329>>, <<12344, 12346>>, <<12690, 12693>>, <<12832, 12841>>,
             <<12872, 12879>>, <<12881, 12895>>, <<12928, 12937>>, <<12977, 12991>>,
             <<13317, 13317>>, <<13443, 13443>>, <<14378, 14378>>, <<15181, 15181>>,
             <<19968, 19968>>, <<19971, 19971>>, <<19975, 19975>>, <<19977, 19977>>,
             <<20061, 20061>>, <<20108, 20108>>, <<20116, 20116>>, <<20118, 20118>>,
             <<20159, 20160>>, <<20191, 20191>>, <<20200, 20200>>, <<20237, 20237>> }
      [] c <= 32902 ->
           { <<20336, 20336>>, <<20740, 20740>>, <<20806, 20806>>, <<20841, 20841>>,
             <<20843, 20843>>, <<20845, 20845>>, <<21313, 21313>>, <<21315, 21317>>,
             <<21324, 21324>>, <<21441, 21444>>, <<22235, 22235>>, <<22769, 22769>>,
             <<22777, 22777>>, <<24186, 24186>>, <<24318, 24319>>, <<24332, 24334>>,
             <<24336, 24336>>, <<25342, 25342>>, <<25420, 25420>>, <<26578, 26578>>,
             <<28422, 28422>>, <<29590, 29590>>, <<30334, 30334>>, <<32902, 32902>> }
      [] c <= 63955 ->
           { <<33836, 33836>>, <<36014, 36014>>, <<36019, 36019>>, <<36144, 36144>>,
             <<38433, 38433>>, <<38470, 38470>>, <<38476, 38476>>, <<38520, 38520>>,
             <<38646, 38646>>, <<42528, 42537>>, <<42726, 42735>>, <<43056, 43061>>,
             <<43216, 43225>>, <<43264, 43273>>, <<43472, 43481>>, <<43504, 43513>>,
             <<43600, 43609>>, <<44016, 44025>>, <<63851, 63851>>, <<63859, 63859>>,
             <<63864, 63864>>, <<63922, 63922>>, <<63953, 63953>>, <<63955, 63955>> }
      [] c <= 68447 ->
           { <<63997, 63997>>, <<65296, 65305>>, <<65799, 65843>>, <<65856, 65912>>,
             <<65930, 65931>>, <<66273, 66299>>, <<66336, 66339>>, <<66369, 66369>>,
             <<66378, 66378>>, <<66513, 66517>>, <<66720, 66729>>, <<67672, 67679>>,
             <<67705, 67711>>, <<67751, 67759>>, <<67835, 67839>>, <<67862, 67867>>,
             <<68028, 68029>>, <<68032, 68047>>, <<68050, 68095>>, <<68160, 68168>>,
             <<68221, 68222>>, <<68253, 68255>>, <<68331, 68335>>, <<68440, 68447>> }
      [] c <= 73129 ->
           { <<68472, 68479>>, <<68521, 68527>>, <<68858, 68863>>, <<68912, 68921>>,
             <<69216, 69246>>, <<69405, 69414>>, <<69457, 69460>>, <<69573, 69579>>,
             <<69714, 69743>>, <<69872, 69881>>, <<69942, 69951>>, <<70096, 70105>>,
             <<70113, 70132>>, <<70384, 70393>>, <<70736, 70745>>, <<70864, 70873>>,
             <<71248, 71257>>, <<71360, 71369>>, <<71472, 71483>>, <<71904, 71922>>,
             <<72016, 72025>>, <<72784, 72812>>, <<73040, 73049>>, <<73120, 73129>> }
      [] c <= 131298 ->
           { <<73664, 73684>>, <<74752, 74862>>, <<92768, 92777>>, <<92864, 92873>>,
             <<93008, 93017>>, <<93019, 93025>>, <<93824, 93846>>, <<119520, 119539>>,
             <<119648, 119672>>, <<120782, 120831>>, <<123200, 123209>>,
             <<123632, 123641>>, <<125127, 125135>>, <<125264, 125273>>,
             <<126065, 126123>>, <<126125, 126127>>, <<126129, 126132>>,
             <<126209, 126253>>, <<126255, 126269>>, <<127232, 127244>>,
             <<130032, 130041>>, <<131073, 131073>>, <<131172, 131172>>,
             <<131298, 131298>> }
      [] OTHER ->
           { <<131361, 131361>>, <<133418, 133418>>, <<133507, 133507>>,
             <<133516, 133516>>, <<133532, 133532>>, <<133866, 133866>>,
             <<133885, 133885>>, <<133913, 133913>>, <<140176, 140176>>,
             <<141720, 141720>>, <<146203, 146203>>, <<156269, 156269>>,
             <<194704, 194704>> }

\* the code points above ASCII that str.isdecimal accepts, runs of the digits
\* 0..9: the ranges around c
DecimalRanges(c) ==
    CASE c <= 6809 ->
           { <<1632, 1641>>, <<1776, 1785>>, <<1984, 1993>>, <<2406, 2415>>,
             <<2534, 2543>>, <<2662, 2671>>, <<2790, 2799>>, <<2918, 2927>>,
             <<3046, 3055>>, <<3174, 3183>>, <<3302, 3311>>, <<3430, 3439>>,
             <<3558, 3567>>, <<3664, 3673>>, <<3792, 3801>>, <<3872, 3881>>,
             <<4160, 4169>>, <<4240, 4249>>, <<6112, 6121>>, <<6160, 6169>>,
             <<6470, 6479>>, <<6608, 6617>>, <<6784, 6793>>, <<6800, 6809>> }
      [] c <= 71481 ->
           { <<6992, 7001>>, <<7088, 7097>>, <<7232, 7241>>, <<7248, 7257>>,
             <<42528, 42537>>, <<43216, 43225>>, <<43264, 43273>>, <<43472, 43481>>,
             <<43504, 43513>>, <<43600, 43609>>, <<44016, 44025>>, <<65296, 65305>>,
             <<66720, 66729>>, <<68912, 68921>>, <<69734, 69743>>, <<69872, 69881>>,
             <<69942, 69951>>, <<70096, 70105>>, <<70384, 70393>>, <<70736, 70745>>,
             <<70864, 70873>>, <<71248, 71257>>, <<71360, 71369>>, <<71472, 71481>> }
      [] OTHER ->
           { <<71904, 71913>>, <<72016, 72025>>, <<72784, 72793>>, <<73040, 73049>>,
             <<73120, 73129>>, <<92768, 92777>>, <<92864, 92873>>, <<93008, 93017>>,
             <<120782, 120831>>, <<123200, 123209>>, <<123632, 123641>>,
             <<125264, 125273>>, <<130032, 130041>> }

InRanges(c, ranges) == \E r \in ranges : r[1] <= c /\ c <= r[2]

isalpha(c) ==
    IF c < 128 THEN (c >= 65 /\ c <= 90) \/ (c >= 97 /\ c <= 122)
    ELSE InRanges(c, AlphaRanges(c))

isnumeric(c) ==
    IF c < 128 THEN c >= 48 /\ c <= 57 ELSE InRanges(c, NumericRanges(c))

isdecimal(c) ==
    IF c < 128 THEN c >= 48 /\ c <= 57 ELSE InRanges(c, DecimalRanges(c))

\* str.isalnum: isalpha, isdecimal, isdigit or isnumeric; isnumeric holds of every
\* decimal and every digit
isalnum(c) == isalpha(c) \/ isnumeric(c)

\* the white space int() and float() strip: the ASCII white space of C and the
\* Unicode white space above ASCII
IsBlank(c) ==
    \/ c \in 9..13 \/ c = 32 \/ c \in {133, 160, 5760} \/ c \in 8192..8202
    \/ c \in {8232, 8233, 8239, 8287, 12288}

\* the value of a decimal digit
decimal_value(c) ==
    IF c < 128 THEN c - 48
    ELSE LET r == CHOOSE r \in DecimalRanges(c) : r[1] <= c /\ c <= r[2]
         IN  (c - r[1]) % 10

\* the number written by the first k characters of a run of decimal digits
RECURSIVE digits_value(_, _)
digits_value(t, k) ==
    IF k = 0 THEN 0 ELSE 10 * digits_value(t, k - 1) + decimal_value(t[k])

\* the text without the white space around it
RECURSIVE lstrip(_)
lstrip(text) == IF text # <<>> /\ IsBlank(text[1]) THEN lstrip(Tail(text)) ELSE text

RECURSIVE rstrip(_)
rstrip(text) ==
    IF text # <<>> /\ IsBlank(text[Len(text)])
    THEN rstrip(SubSeq(text, 1, Len(text) - 1)) ELSE text

strip(text) == rstrip(lstrip(text))

IsSign(c) == c = 43 \/ c = 45

Unsigned(text) == IF text # <<>> /\ IsSign(text[1]) THEN Tail(text) ELSE text

IsNegative(text) == text # <<>> /\ text[1] = 45

\* "_" may stand between two digits only
underscores_ok(t) ==
    \A i \in 1..Len(t) :
        t[i] = 95 => (i > 1 /\ i < Len(t) /\ isdecimal(t[i - 1]) /\ isdecimal(t[i + 1]))

NotUnderscore(c) == c # 95

Parsed(v) == [ok |-> TRUE, val |-> v]

ValueError == [ok |-> FALSE, val |-> 0]

\* int(text), base 10: white space around, a sign, decimal digits of any script
\* with single "_" between them.  Modelled for up to nine digits.
int_general(text) ==
    LET body == Unsigned(strip(text))
        digits == SelectSeq(body, NotUnderscore)
    IN  IF digits = <<>> \/ ~underscores_ok(body)
           \/ \E i \in 1..Len(digits) : ~isdecimal(digits[i])
        THEN ValueError
        ELSE Parsed((IF IsNegative(strip(text)) THEN -1 ELSE 1)
                    * digits_value(digits, Len(digits)))

\* int(text); a text of decimal digits only is read directly
int(text) ==
    IF text # <<>> /\ \A i \in 1..Len(text) : isdecimal(text[i])
    THEN Parsed(digits_value(text, Len(text)))
    ELSE int_general(text)

\* str(n) for n >= 0
RECURSIVE DecimalText(_)
DecimalText(n) ==
    IF n < 10 THEN <<48 + n>> ELSE DecimalText(n \div 10) \o <<48 + (n % 10)>>

\* source[a:b] for 0 <= a <= b <= len(source)
Slice(s, a, b) == SubSeq(s, a + 1, b)

(***************************************************************************)
(* The parser as a record P of its instance fields, its position in        *)
(* parse_form and the locals of the running call.  Every handler is an     *)
(* operator from a parser record to the next parser record.                *)
(***************************************************************************)
\* the outcome of a call: the form returned, or the position and the offending text
\* that the message of the exception raised reports
NoResult == [kind |-> "none", fields |-> <<>>, what |-> "", position |-> 0, got |-> <<>>]

OkResult(f) == [kind |-> "ok", fields |-> f, what |-> "", position |-> 0, got |-> <<>>]

ErrorResult(w, pos, g) == [kind |-> "error", fields |-> <<>>, what |-> w, position |-> pos, got |-> g]

IndexErrorResult == [kind |-> "IndexError", fields |-> <<>>, what |-> "", position |-> 0, got |-> <<>>]

\* int() of a bit size that is numeric but not decimal: "invalid literal for int()"
ValueErrorResult(literal) ==
    [kind |-> "ValueError", fields |-> <<>>, what |-> "", position |-> 0, got |-> literal]

Field(n, t, b, it) == [name |-> n, type |-> t, bits |-> b, items |-> it]

\* FormParser() : the constructor's state
NewParser ==
    [source |-> <<>>, length |-> 0, cursor |-> 0, char |-> NoChar,
     pc |-> "idle", ret |-> "", start |-> 0, field_name |-> <<>>, items |-> <<>>,
     form |-> <<>>, result |-> NoResult]

\* leaving parse_form (return or raise): the locals are gone, the instance fields stay
Leave(p, r) ==
    [p EXCEPT !.pc = "idle", !.ret = "", !.start = 0, !.field_name = <<>>,
              !.items = <<>>, !.form = <<>>, !.result = r]

Return(p) == Leave(p, OkResult(p.form))

\* raise Exception(f"... at position {self.cursor} but got '{self.char}'")
Raise(p, w) == Leave(p, ErrorResult(w, p.cursor, <<p.char>>))

\* raise Exception(f"expected bitsize ... at position {self.cursor} but got '{bitsize}'")
RaiseBitsize(p, bitsize) == Leave(p, ErrorResult("bitsize", p.cursor, DecimalText(bitsize)))

\* advance() stepping over a character: the cursor moves by two
advance_skip(p) ==
    [p EXCEPT !.cursor = p.cursor + 2,
              !.char = IF p.cursor + 2 < p.length THEN p.source[p.cursor + 3] ELSE NUL]

advance(p) ==
    [p EXCEPT !.cursor = p.cursor + 1,
              !.char = IF p.cursor + 1 < p.length THEN p.source[p.cursor + 2] ELSE NUL]

\* parse_form without line 100: the cursor of the earlier call is kept
parse_form_entry_stale(p, codeform) ==
    LET q == [p EXCEPT !.source = codeform, !.length = Len(codeform)]
    IN  IF Len(codeform) = 0
        THEN Leave(q, IndexErrorResult)
        ELSE [q EXCEPT !.char = codeform[1], !.form = <<>>, !.result = NoResult, !.pc = "loop"]

\* parse_form, lines 98-103: the instance is re-initialised from the argument
parse_form_entry(p, codeform) ==
    LET q == [p EXCEPT !.source = codeform, !.length = Len(codeform), !.cursor = 0]
    IN  IF Len(codeform) = 0
        THEN Leave(q, IndexErrorResult)
        ELSE [q EXCEPT !.char = codeform[1], !.form = <<>>, !.result = NoResult, !.pc = "loop"]

\* parse_form, lines 105-106: the loop test, then collect_word's first-letter test
parse_form_loop(p) ==
    IF p.cursor < p.length
    THEN IF ~isalpha(p.char)
         THEN Raise(p, "word")
         ELSE [p EXCEPT !.start = p.cursor, !.ret = "field", !.pc = "word"]
    ELSE Return(p)

\* collect_word, lines 137-140: one turn of the while loop, or the return of the slice
collect_word_loop(p) ==
    IF isalnum(p.char) \/ p.char = Ord("_")
    THEN advance(p)
    ELSE LET word == Slice(p.source, p.start, p.cursor)
         IN  IF p.ret = "field"
             THEN [p EXCEPT !.field_name = word, !.pc = "colon"]
             ELSE [p EXCEPT !.items = Append(p.items, word), !.pc = "enum_sep"]

expect(p, c, next) ==
    IF p.char = c THEN [advance(p) EXCEPT !.pc = next] ELSE Raise(p, "expect")

\* parse_form, line 107
expect_colon(p) == expect(p, Ord(":"), "type")

\* form.create_field(field_name, field_type, field_value), line 109
create_field(p, t, b, it) ==
    [p EXCEPT !.form = Append(p.form, Field(p.field_name, t, b, it)), !.pc = "field_end"]

\* collect_type_and_value, lines 143-149
collect_type_and_value(p) ==
    CASE p.char = Ord("i") -> [advance(p) EXCEPT !.pc = "int_bits"]
      [] p.char = Ord("f") -> [advance(p) EXCEPT !.pc = "float_bits"]
      [] p.char = Ord("s") -> create_field(advance(p), "s", 0, <<>>)
      [] p.char = Ord("e") -> [advance(p) EXCEPT !.pc = "enum_open"]
      [] OTHER -> Raise(p, "type")

IntegerBitsizes == {8, 16, 32, 64}

FloatBitsizes == {32, 64}

\* collect_bitsize_integer, lines 158 and 163-164
collect_bitsize_integer(p) ==
    IF isnumeric(p.char)
    THEN [p EXCEPT !.start = p.cursor, !.ret = "int", !.pc = "integer"]
    ELSE create_field(p, "i", 8, <<>>)

\* collect_bitsize_float, lines 167 and 172-173
collect_bitsize_float(p) ==
    IF isnumeric(p.char)
    THEN [p EXCEPT !.start = p.cursor, !.ret = "float", !.pc = "integer"]
    ELSE create_field(p, "f", 32, <<>>)

\* collect_integer (the second definition, lines 189-193) and the bit size test
\* of its caller (lines 159-162, 168-171)
collect_integer_loop(p) ==
    IF isnumeric(p.char)
    THEN advance(p)
    ELSE LET literal == Slice(p.source, p.start, p.cursor)
             bitsize == int(literal)
         IN  IF ~bitsize.ok THEN Leave(p, ValueErrorResult(literal))
             ELSE IF p.ret = "int"
             THEN IF bitsize.val \notin IntegerBitsizes
                  THEN RaiseBitsize(p, bitsize.val)
                  ELSE create_field(p, "i", bitsize.val, <<>>)
             ELSE IF bitsize.val \notin FloatBitsizes
                  THEN RaiseBitsize(p, bitsize.val)
                  ELSE create_field(p, "f", bitsize.val, <<>>)

\* collect_enum, lines 176-177
collect_enum_open(p) ==
    IF p.char = Ord("[") THEN [advance(p) EXCEPT !.items = <<>>, !.pc = "enum_word"]
    ELSE Raise(p, "expect")

\* collect_enum, line 180: collect_word's first-letter test for an item
collect_enum_word(p) ==
    IF ~isalpha(p.char)
    THEN Raise(p, "word")
    ELSE [p EXCEPT !.start = p.cursor, !.ret = "enum", !.pc = "word"]

\* collect_enum, lines 181-187
collect_enum_sep(p) ==
    IF p.char # Ord(";")
    THEN expect(p, Ord(","), "enum_word")
    ELSE create_field(advance(p), "e", 0, p.items)

\* parse_form rejecting text that follows a field and is no ","
parse_form_field_end_strict(p) ==
    IF p.char # Ord(",")
    THEN IF p.cursor < p.length THEN Raise(p, "expect") ELSE Return(p)
    ELSE [advance(p) EXCEPT !.pc = "loop"]

\* parse_form, lines 111-116
parse_form_field_end(p) ==
    IF p.char # Ord(",")
    THEN Return(p)
    ELSE [advance(p) EXCEPT !.pc = "loop"]

\* collect_float, lines 195-198: the cursor moves past digits and "."; nothing is returned
RECURSIVE collect_float(_)
collect_float(p) ==
    IF isnumeric(p.char) \/ p.char = Ord(".") THEN collect_float(advance(p)) ELSE p

\* one step of a running parse_form call
Step(p) ==
    CASE p.pc = "loop" -> parse_form_loop(p)
      [] p.pc = "word" -> collect_word_loop(p)
      [] p.pc = "colon" -> expect_colon(p)
      [] p.pc = "type" -> collect_type_and_value(p)
      [] p.pc = "int_bits" -> collect_bitsize_integer(p)
      [] p.pc = "float_bits" -> collect_bitsize_float(p)
      [] p.pc = "integer" -> collect_integer_loop(p)
      [] p.pc = "enum_open" -> collect_enum_open(p)
      [] p.pc = "enum_word" -> collect_enum_word(p)
      [] p.pc = "enum_sep" -> collect_enum_sep(p)
      [] p.pc = "field_end" -> parse_form_field_end(p)

RECURSIVE Run(_)
Run(p) == IF p.pc = "idle" THEN p ELSE Run(Step(p))

\* FormParser().parse_form(codeform): the outcome on a newly constructed parser
parse_form(codeform) == Run(parse_form_entry(NewParser, codeform)).result

(***************************************************************************)
(* The schema strings handed to parse_form: up to MaxSchemaTexts of the    *)
(* texts below, joined by ",".                                             *)
(***************************************************************************)
SchemaTexts ==
    { <<>>,
      Text(<<"a", "b", ":", "i", "1", "6", ",", "d", ":", "s">>),
      Text(<<"b", ":", "i">>),
      Text(<<"c", ":", "f">>),
      <<233>> \o Text(<<"_", "1", ":", "f">>) \o <<1638, 1636>>,
      Text(<<"d", ":", "s", ",">>),
      Text(<<"a", ":", "s", ",", "1">>),
      Text(<<"e", ":", "e", "[", "x", ",", "y", ";", ",", "b", ":", "i">>),
      Text(<<"e", ":", "e", "[", "x", ",", "y", ";", "]", ",", "b", ":", "i">>),
      Text(<<"1", "n", ":", "i", "8">>),
      Text(<<"g", ":", "i">>) \o <<178>>,
      Text(<<"k", ":", "f", "1", "6">>),
      Text(<<"h", ":", "e", "[", "x", ",">>),
      Text(<<"n", ":", "z">>),
      Text(<<"o">>) }

RECURSIVE Join(_)
Join(texts) ==
    IF Len(texts) = 1 THEN texts[1]
    ELSE Join(SubSeq(texts, 1, Len(texts) - 1)) \o <<Ord(",")>> \o texts[Len(texts)]

Schemas ==
    { Join(t) : t \in UNION { [1..n -> SchemaTexts] : n \in 1..MaxSchemaTexts } }

(***************************************************************************)
(* bitstring: bit arrays, pack / unpack of "uint:n" and "int:n", tobytes.  *)
(***************************************************************************)
Pow2(n) == 2 ^ n

\* the n low bits of v >= 0, most significant first (an integer of the model is
\* below 2^31, so every bit from 2^31 up is 0)
uint_bits(v, n) ==
    [i \in 1..n |-> IF n - i >= 31 THEN 0 ELSE (v \div Pow2(n - i)) % 2]

\* the unsigned value of a bit array
RECURSIVE bits_uint(_)
bits_uint(b) ==
    IF b = <<>> THEN 0 ELSE 2 * bits_uint(SubSeq(b, 1, Len(b) - 1)) + b[Len(b)]

invert(b) == [i \in 1..Len(b) |-> 1 - b[i]]

Packed(b) == [ok |-> TRUE, bits |-> b]

PackError == [ok |-> FALSE, bits |-> <<>>]

\* bitstring.pack("uint:n", v): CreationError when v does not fit n bits
pack_uint(n, v) ==
    IF v < 0 \/ v >= Pow2(n) THEN PackError ELSE Packed(uint_bits(v, n))

\* bitstring.pack("int:n", v): two's complement, CreationError when out of range.
\* For n >= 32 every integer of the model is in range.
pack_int(n, v) ==
    IF n < 32 /\ (v < -Pow2(n - 1) \/ v >= Pow2(n - 1)) THEN PackError
    ELSE IF v >= 0 THEN Packed(uint_bits(v, n))
    ELSE Packed(invert(uint_bits(-v - 1, n)))

\* Bits.tobytes(): zero bits are appended up to a whole number of bytes
tobytes(b) ==
    LET padded == b \o [i \in 1..((8 - (Len(b) % 8)) % 8) |-> 0]
    IN  [k \in 1..(Len(padded) \div 8) |-> bits_uint(SubSeq(padded, 8 * k - 7, 8 * k))]

\* bitstring.BitStream(bytes=data)
RECURSIVE BitStream(_)
BitStream(data) ==
    IF data = <<>> THEN <<>>
    ELSE BitStream(SubSeq(data, 1, Len(data) - 1)) \o uint_bits(data[Len(data)], 8)

Unpacked(v) == [ok |-> TRUE, val |-> v]

ReadError == [ok |-> FALSE, val |-> 0]

\* stream.unpack("uint:n")[0]: ReadError when fewer than n bits are left
unpack_uint(stream, n) ==
    IF Len(stream) < n THEN ReadError ELSE Unpacked(bits_uint(SubSeq(stream, 1, n)))

\* stream.unpack("int:n")[0]
unpack_int(stream, n) ==
    IF Len(stream) < n THEN ReadError
    ELSE LET b == SubSeq(stream, 1, n)
         IN  IF b[1] = 0 THEN Unpacked(bits_uint(b))
             ELSE Unpacked(-bits_uint(invert(b)) - 1)

(***************************************************************************)
(* math.ceil(math.log2(m)) and math.ceil(math.log2(m) / 8) for m >= 1.     *)
(***************************************************************************)
\* the least k with 2^k >= m
RECURSIVE least_pow2(_, _)
least_pow2(m, k) == IF Pow2(k) >= m THEN k ELSE least_pow2(m, k + 1)

ceil_log2(m) == least_pow2(m, 0)

\* the least b with 8 * b >= log2(m), that is with 2^(8b) >= m
RECURSIVE least_pow256(_, _)
least_pow256(m, b) == IF Pow2(8 * b) >= m THEN b ELSE least_pow256(m, b + 1)

ceil_log2_div8(m) == least_pow256(m, 0)

(***************************************************************************)
(* str.encode("utf-8") and bytes.decode("utf-8") on code point sequences.  *)
(***************************************************************************)
Utf8(b) == [ok |-> TRUE, bytes |-> b]

\* a lone surrogate has no UTF-8 encoding
UnicodeEncodeError == [ok |-> FALSE, bytes |-> <<>>]

utf8_char(cp) ==
    IF cp < 128 THEN Utf8(<<cp>>)
    ELSE IF cp < 2048 THEN Utf8(<<192 + (cp \div 64), 128 + (cp % 64)>>)
    ELSE IF cp >= 55296 /\ cp <= 57343 THEN UnicodeEncodeError
    ELSE IF cp < 65536
         THEN Utf8(<<224 + (cp \div 4096), 128 + ((cp \div 64) % 64), 128 + (cp % 64)>>)
    ELSE Utf8(<<240 + (cp \div 262144), 128 + ((cp \div 4096) % 64),
                128 + ((cp \div 64) % 64), 128 + (cp % 64)>>)

\* text.encode("utf-8")
RECURSIVE utf8_encode(_)
utf8_encode(text) ==
    IF text = <<>> THEN Utf8(<<>>)
    ELSE LET first == utf8_char(text[1])
             rest == utf8_encode(Tail(text))
         IN  IF first.ok /\ rest.ok THEN Utf8(first.bytes \o rest.bytes)
             ELSE UnicodeEncodeError

IsCont(b) == b >= 128 /\ b <= 191

Decoded(t) == [ok |-> TRUE, text |-> t]

UnicodeDecodeError == [ok |-> FALSE, text |-> <<>>]

\* the strict decoder: no overlong forms, no surrogates, nothing above U+10FFFF
RECURSIVE utf8_decode(_)
utf8_decode(data) ==
    IF data = <<>> THEN Decoded(<<>>)
    ELSE LET b == data[1]
             n == IF b < 128 THEN 1
                  ELSE IF b >= 194 /\ b <= 223 THEN 2
                  ELSE IF b >= 224 /\ b <= 239 THEN 3
                  ELSE IF b >= 240 /\ b <= 244 THEN 4
                  ELSE 0
         IN  IF n = 0 \/ Len(data) < n THEN UnicodeDecodeError
             ELSE IF \E i \in 2..n : ~IsCont(data[i]) THEN UnicodeDecodeError
             ELSE IF n = 3 /\ ((b = 224 /\ data[2] < 160) \/ (b = 237 /\ data[2] > 159))
                  THEN UnicodeDecodeError
             ELSE IF n = 4 /\ ((b = 240 /\ data[2] < 144) \/ (b = 244 /\ data[2] > 143))
                  THEN UnicodeDecodeError
             ELSE LET cp == CASE n = 1 -> b
                              [] n = 2 -> (b - 192) * 64 + (data[2] - 128)
                              [] n = 3 -> (b - 224) * 4096 + (data[2] - 128) * 64 + (data[3] - 128)
                              [] n = 4 -> (b - 240) * 262144 + (data[2] - 128) * 4096
                                          + (data[3] - 128) * 64 + (data[4] - 128)
                      rest == utf8_decode(SubSeq(data, n + 1, Len(data)))
                  IN  IF rest.ok THEN Decoded(<<cp>> \o rest.text) ELSE UnicodeDecodeError

(***************************************************************************)
(* float(text): white space around, a sign, then "inf", "infinity" or      *)
(* "nan" in any case, or decimal digits of any script with at most one     *)
(* "." and an optional exponent, single "_" between digits.  A Python      *)
(* float is the record of its class, sign, binary exponent and the digits  *)
(* of its significand after the leading one.  The value is computed for    *)
(* texts that denote num/den with num < 2^30 and den <= 10^8.              *)
(***************************************************************************)
FloatZero(s) == [cls |-> "zero", sign |-> s, exp |-> 0, sig |-> <<>>]

FloatInf(s) == [cls |-> "inf", sign |-> s, exp |-> 0, sig |-> <<>>]

\* a NaN; its payload is not kept
FloatNaN(s) == [cls |-> "nan", sign |-> s, exp |-> 0, sig |-> <<>>]

RECURSIVE strip_zeros(_, _)
strip_zeros(b, k) ==
    IF k = 0 THEN <<>> ELSE IF b[k] = 1 THEN SubSeq(b, 1, k) ELSE strip_zeros(b, k - 1)

FloatFinite(s, e, fraction) ==
    [cls |-> "finite", sign |-> s, exp |-> e, sig |-> strip_zeros(fraction, Len(fraction))]

\* the binary digits of i > 0, leading one first
RECURSIVE bit_length(_, _)
bit_length(i, k) == IF Pow2(k) > i THEN k ELSE bit_length(i, k + 1)

nat_bits(i) == IF i = 0 THEN <<>> ELSE uint_bits(i, bit_length(i, 1))

\* the binary digits of r/d (0 <= r < d < 2^27) after the point, four at a time:
\* the first 4 * n of them, and what is left
RECURSIVE frac_bits(_, _, _)
frac_bits(r, d, n) ==
    IF n = 0 THEN [bits |-> <<>>, rem |-> r]
    ELSE LET rest == frac_bits((16 * r) % d, d, n - 1)
         IN  [bits |-> uint_bits((16 * r) \div d, 4) \o rest.bits, rem |-> rest.rem]

\* the number of zero digits of r/d (0 < r < d) after the point before its first one
RECURSIVE leading_zeros(_, _)
leading_zeros(r, d) == IF 2 * r >= d THEN 0 ELSE 1 + leading_zeros(2 * r, d)

RECURSIVE increment(_, _)
increment(b, k) ==
    IF b[k] = 0 THEN [i \in 1..Len(b) |-> IF i < k THEN b[i] ELSE IF i = k THEN 1 ELSE 0]
    ELSE increment(b, k - 1)

\* round-half-even of the significand digits `digits` (leading one first, at least
\* p + 1 of them; `sticky`: a non-zero tail follows) to p digits
round_significand(s, e, digits, sticky, p) ==
    LET mant == SubSeq(digits, 1, p)
        guard == digits[p + 1]
        tail == sticky \/ \E i \in (p + 2)..Len(digits) : digits[i] = 1
        up == guard = 1 /\ (tail \/ mant[p] = 1)
    IN  IF ~up THEN FloatFinite(s, e, Tail(mant))
        ELSE IF \A i \in 1..p : mant[i] = 1 THEN FloatFinite(s, e + 1, <<>>)
        ELSE FloatFinite(s, e, Tail(increment(mant, p)))

Zeros(n) == [i \in 1..n |-> 0]

Ones(n) == [i \in 1..n |-> 1]

\* the value num/den > 0 rounded to a binary float of p significant digits
round_rational(s, num, den, p) ==
    LET ipart == num \div den
        ibits == nat_bits(ipart)
        r == num % den
    IN  IF ipart > 0
        THEN LET fb == frac_bits(r, den, (p + 4) \div 4)
             IN  round_significand(s, Len(ibits) - 1, ibits \o fb.bits, fb.rem # 0, p)
        ELSE LET z == leading_zeros(r, den)
                 fb == frac_bits(r, den, (z + p + 4) \div 4)
             IN  round_significand(s, -(z + 1), SubSeq(fb.bits, z + 1, Len(fb.bits)),
                                   fb.rem # 0, p)

Pow10(n) == 10 ^ n

\* str.lower of an ASCII letter
lower(c) == IF c >= 65 /\ c <= 90 THEN c + 32 ELSE c

\* the first index of one of the characters cs in t, or Len(t) + 1
first_of(t, cs) ==
    IF \E i \in 1..Len(t) : t[i] \in cs
    THEN CHOOSE i \in 1..Len(t) : t[i] \in cs /\ \A j \in 1..(i - 1) : t[j] \notin cs
    ELSE Len(t) + 1

AllDecimal(t) == \A i \in 1..Len(t) : isdecimal(t[i])

\* float(input): the nearest binary64 value
float(text) ==
    LET t == strip(text)
        sign == IF IsNegative(t) THEN 1 ELSE 0
        body == SelectSeq(Unsigned(t), NotUnderscore)
        word == [i \in 1..Len(body) |-> lower(body[i])]
        e == first_of(body, {101, 69})
        mant == SubSeq(body, 1, e - 1)
        dot == first_of(mant, {46})
        whole == SubSeq(mant, 1, dot - 1)
        fraction == SubSeq(mant, dot + 1, Len(mant))
        expo == SubSeq(body, e + 1, Len(body))
    IN  IF ~underscores_ok(t) THEN ValueError
        ELSE IF word \in {Text(<<"i", "n", "f">>), Text(<<"i", "n", "f", "i", "n", "i", "t", "y">>)}
        THEN Parsed(FloatInf(sign))
        ELSE IF word = Text(<<"n", "a", "n">>) THEN Parsed(FloatNaN(sign))
        ELSE IF \/ ~AllDecimal(whole) \/ ~AllDecimal(fraction)
                \/ whole \o fraction = <<>>
                \/ (e <= Len(body) /\ (Unsigned(expo) = <<>> \/ ~AllDecimal(Unsigned(expo))))
        THEN ValueError
        ELSE LET digits == whole \o fraction
                 m == digits_value(digits, Len(digits))
                 x == IF e > Len(body) THEN 0
                      ELSE (IF IsNegative(expo) THEN -1 ELSE 1)
                           * digits_value(Unsigned(expo), Len(Unsigned(expo)))
                 k == x - Len(fraction)
             IN  IF m = 0 THEN Parsed(FloatZero(sign))
                 ELSE IF k >= 0 THEN Parsed(round_rational(sign, m * Pow10(k), 1, 53))
                 ELSE Parsed(round_rational(sign, m, Pow10(-k), 53))

(***************************************************************************)
(* bitstring pack / unpack of "float:32" and "float:64" (big-endian IEEE   *)
(* 754).  pack is modelled for zero, infinity, NaN and the finite values   *)
(* in the normal range of the width.                                       *)
(***************************************************************************)
ExpBits(n) == IF n = 32 THEN 8 ELSE 11

FracBits(n) == IF n = 32 THEN 23 ELSE 52

Bias(n) == IF n = 32 THEN 127 ELSE 1023

\* a Python float narrowed to the significand of the width (struct.pack(">f", x))
narrow(f, n) ==
    IF f.cls # "finite" \/ Len(f.sig) <= FracBits(n) THEN f
    ELSE round_significand(f.sign, f.exp, <<1>> \o f.sig, FALSE, FracBits(n) + 1)

pack_float(n, f) ==
    LET g == narrow(f, n)
    IN  IF g.cls = "zero" THEN Packed(<<g.sign>> \o Zeros(n - 1))
        ELSE IF g.cls = "inf"
        THEN Packed(<<g.sign>> \o Ones(ExpBits(n)) \o Zeros(FracBits(n)))
        ELSE IF g.cls = "nan"
        THEN Packed(<<g.sign>> \o Ones(ExpBits(n)) \o <<1>> \o Zeros(FracBits(n) - 1))
        ELSE Packed(<<g.sign>> \o uint_bits(g.exp + Bias(n), ExpBits(n))
                    \o g.sig \o Zeros(FracBits(n) - Len(g.sig)))

RECURSIVE first_one(_, _)
first_one(b, k) == IF b[k] = 1 THEN k ELSE first_one(b, k + 1)

NoFloat == [ok |-> FALSE, val |-> FloatNaN(0)]

\* stream.unpack("float:n")[0]
unpack_float(stream, n) ==
    IF Len(stream) < n THEN NoFloat
    ELSE LET s == stream[1]
             e == bits_uint(SubSeq(stream, 2, 1 + ExpBits(n)))
             fr == SubSeq(stream, 2 + ExpBits(n), n)
             zero == \A i \in 1..Len(fr) : fr[i] = 0
         IN  IF e = Pow2(ExpBits(n)) - 1
             THEN [ok |-> TRUE, val |-> IF zero THEN FloatInf(s) ELSE FloatNaN(s)]
             ELSE IF e = 0
             THEN IF zero THEN [ok |-> TRUE, val |-> FloatZero(s)]
                  ELSE LET k == first_one(fr, 1)
                       IN  [ok |-> TRUE,
                            val |-> FloatFinite(s, 1 - Bias(n) - k, SubSeq(fr, k + 1, Len(fr)))]
             ELSE [ok |-> TRUE, val |-> FloatFinite(s, e - Bias(n), fr)]

(***************************************************************************)
(* Field.encode, Field.decode, Field.size.                                 *)
(***************************************************************************)
Range(f) == {f[i] : i \in DOMAIN f}

Encoded(b) == [ok |-> TRUE, bytes |-> b]

EncodeError == [ok |-> FALSE, bytes |-> <<>>]

\* the bit width of an enum taken from the item count, not the item count plus one
enum_bits_narrow(field) == ceil_log2(Len(field.items))

\* math.ceil(math.log2(len(self.value) + 1)), lines 35 and 48
enum_bits(field) == ceil_log2(Len(field.items) + 1)

\* list.index(x) counting from one
index_from_one(list, x) ==
    CHOOSE i \in 1..Len(list) : list[i] = x /\ \A j \in 1..(i - 1) : list[j] # x

\* self.value.index(input): zero-based, the first match
index(list, x) == (CHOOSE i \in 1..Len(list) : list[i] = x /\ \A j \in 1..(i - 1) : list[j] # x) - 1

\* bitstring.pack("bytes:n", data): CreationError unless data holds n bytes
pack_bytes(n, data) == IF Len(data) # n THEN PackError ELSE Packed(BitStream(data))

packed_bytes(r) == IF r.ok THEN Encoded(tobytes(r.bits)) ELSE EncodeError

\* Field.encode(input), lines 21-36
Field_encode(field, input) ==
    CASE field.type = "i" ->
           LET v == int(input)
           IN  IF v.ok THEN packed_bytes(pack_int(field.bits, v.val)) ELSE EncodeError
      [] field.type = "f" ->
           LET v == float(input)
           IN  IF v.ok THEN packed_bytes(pack_float(field.bits, v.val)) ELSE EncodeError
      [] field.type = "s" ->
           LET v == input \o <<0>>
               data == utf8_encode(v)
           IN  IF data.ok THEN packed_bytes(pack_bytes(Len(v), data.bytes)) ELSE EncodeError
      [] field.type = "e" ->
           IF input \notin Range(field.items) THEN EncodeError
           ELSE packed_bytes(pack_uint(enum_bits(field), index(field.items, input)))

IntVal(n) == [type |-> "int", int |-> n, float |-> FloatZero(0), str |-> <<>>]

FloatVal(f) == [type |-> "float", int |-> 0, float |-> f, str |-> <<>>]

StrVal(t) == [type |-> "str", int |-> 0, float |-> FloatZero(0), str |-> t]

Value(v) == [ok |-> TRUE, val |-> v]

DecodeError == [ok |-> FALSE, val |-> IntVal(0)]

\* input[offset:]
From(input, off) == SubSeq(input, off + 1, Len(input))

\* self.value[i] with an index past the list clamped to the last item
enum_item_clamped(field, i) ==
    Value(StrVal(field.items[IF i >= Len(field.items) THEN Len(field.items) ELSE i + 1]))

\* self.value[i] of an enum: IndexError when i is no index of the list
enum_item(field, i) ==
    IF i >= Len(field.items) THEN DecodeError ELSE Value(StrVal(field.items[i + 1]))

\* Field.decode(input, offset), lines 38-49
Field_decode(field, input, off) ==
    LET stream == BitStream(From(input, off))
    IN  CASE field.type = "i" ->
               LET r == unpack_int(stream, field.bits)
               IN  IF r.ok THEN Value(IntVal(r.val)) ELSE DecodeError
          [] field.type = "f" ->
               LET r == unpack_float(stream, field.bits)
               IN  IF r.ok THEN Value(FloatVal(r.val)) ELSE DecodeError
          [] field.type = "s" ->
               LET rest == From(input, off)
               IN  IF 0 \notin Range(rest) THEN DecodeError
                   ELSE LET zero_at == index(rest, 0)
                            t == utf8_decode(SubSeq(input, off + 1, off + zero_at))
                        IN  IF t.ok THEN Value(StrVal(t.text)) ELSE DecodeError
          [] field.type = "e" ->
               LET r == unpack_uint(stream, enum_bits(field))
               IN  IF r.ok THEN enum_item(field, r.val) ELSE DecodeError

\* Field.size with the size of an enum taken as bits // 8 + 1
Field_size_padded(field) ==
    CASE field.type = "i" -> field.bits \div 8
      [] field.type = "f" -> field.bits \div 8
      [] field.type = "s" -> 0
      [] field.type = "e" -> ceil_log2(Len(field.items) + 1) \div 8 + 1

\* int(Field.size()), lines 51-57 and 87
Field_size(field) ==
    CASE field.type = "i" -> field.bits \div 8
      [] field.type = "f" -> field.bits \div 8
      [] field.type = "s" -> 0
      [] field.type = "e" -> ceil_log2_div8(Len(field.items) + 1)

(***************************************************************************)
(* Form.encode and Form.decode, one field at a time.                       *)
(***************************************************************************)
EmptyObj == [n \in {} |-> IntVal(0)]

\* obj[name] = v
Store(o, name, v) == [n \in DOMAIN o \cup {name} |-> IF n = name THEN v ELSE o[n]]

\* Form.decode, lines 84-87: the step of the offset past a decoded field
Advance(field, v) == IF field.type = "s" THEN Len(v.str) + 1 ELSE Field_size(field)

(***************************************************************************)
(* The forms, value texts and buffers of the model.                        *)
(***************************************************************************)
\* the enum items x1, ..., xn
EnumItems(n) == [i \in 1..n |-> <<Ord("x")>> \o DecimalText(i)]

\* the name of the field declared at position i: a, b, c, ...
PosName(i) == <<Ord("a") + i - 1>>

Kinds(name) ==
    { Field(name, "i", 8, <<>>), Field(name, "i", 16, <<>>), Field(name, "f", 32, <<>>),
      Field(name, "f", 64, <<>>), Field(name, "s", 0, <<>>), Field(name, "e", 0, EnumItems(3)) }

\* forms of up to MaxFormFields fields; a later field may repeat the first one's name
SmallForms ==
    UNION { { f \in [1..n -> UNION {Kinds(PosName(i)) : i \in 1..n}] :
                \A i \in 1..n : f[i].name \in {PosName(i), PosName(1)} } :
            n \in 1..MaxFormFields }

\* single-field forms: every integer and float width, every enum size
SingleForms ==
    { <<Field(PosName(1), "i", b, <<>>)>> : b \in IntegerBitsizes }
    \cup { <<Field(PosName(1), "f", b, <<>>)>> : b \in FloatBitsizes }
    \cup { <<Field(PosName(1), "e", 0, EnumItems(n))>> : n \in 1..MaxEnumItems }

CodecForms == SmallForms \cup SingleForms

\* what the user may type for a field
InputTexts(field) ==
    CASE field.type = "i" ->
           { Text(<<"3", "0">>), Text(<<"-", "1">>), Text(<<"1", "2", "8">>), Text(<<"x">>),
             <<32>> \o Text(<<"1", "_", "0">>) \o <<1635, 10>> }
      [] field.type = "f" ->
           { Text(<<"2", ".", "5">>), Text(<<"0", ".", "1">>),
             Text(<<"1", "6", "7", "7", "7", "2", "1", "7">>),
             Text(<<"1", "e", "3">>), Text(<<"-", "i", "n", "f">>) }
      [] field.type = "s" ->
           { Text(<<"b", "o", "b">>), <<>>, <<233>>, <<55296>> }
      [] field.type = "e" ->
           { field.items[1], field.items[Len(field.items)], Text(<<"z">>) }

ByteAlphabet == {0, 30, 169, 195}

Buffers == UNION { [1..n -> ByteAlphabet] : n \in 0..MaxBufLen }

DecodeKinds(name) ==
    { Field(name, "i", 8, <<>>), Field(name, "i", 16, <<>>), Field(name, "f", 32, <<>>),
      Field(name, "s", 0, <<>>), Field(name, "e", 0, EnumItems(3)) }

DecodeForms ==
    UNION { { f \in [1..n -> UNION {DecodeKinds(PosName(i)) : i \in 1..n}] :
                \A i \in 1..n : f[i].name = PosName(i) } :
            n \in 1..MaxFormFields }

(***************************************************************************)
(* The FormParser instance as a state machine.                             *)
(***************************************************************************)
\* the parser record of the current state
P ==
    [source |-> source, length |-> length, cursor |-> cursor, char |-> char,
     pc |-> pc, ret |-> ret, start |-> start, field_name |-> field_name,
     items |-> items, form |-> form, result |-> result]

Commit(q) ==
    /\ source' = q.source
    /\ length' = q.length
    /\ cursor' = q.cursor
    /\ char' = q.char
    /\ pc' = q.pc
    /\ ret' = q.ret
    /\ start' = q.start
    /\ field_name' = q.field_name
    /\ items' = q.items
    /\ form' = q.form
    /\ result' = q.result

ParserInit ==
    /\ source = NewParser.source
    /\ length = NewParser.length
    /\ cursor = NewParser.cursor
    /\ char = NewParser.char
    /\ pc = NewParser.pc
    /\ ret = NewParser.ret
    /\ start = NewParser.start
    /\ field_name = NewParser.field_name
    /\ items = NewParser.items
    /\ form = NewParser.form
    /\ result = NewParser.result
    /\ calls = 0

\* a call parse_form(codeform) on the instance, whatever earlier calls left in it
ParseForm ==
    /\ pc = "idle"
    /\ calls < MaxCalls
    /\ calls' = calls + 1
    /\ \E codeform \in Schemas : Commit(parse_form_entry(P, codeform))
    /\ UNCHANGED codecVars

ParseFormLoop == pc = "loop" /\ Commit(parse_form_loop(P)) /\ UNCHANGED <<calls, codecVars>>

CollectWord == pc = "word" /\ Commit(collect_word_loop(P)) /\ UNCHANGED <<calls, codecVars>>

ExpectColon == pc = "colon" /\ Commit(expect_colon(P)) /\ UNCHANGED <<calls, codecVars>>

CollectTypeAndValue == pc = "type" /\ Commit(collect_type_and_value(P)) /\ UNCHANGED <<calls, codecVars>>

CollectBitsizeInteger == pc = "int_bits" /\ Commit(collect_bitsize_integer(P)) /\ UNCHANGED <<calls, codecVars>>

CollectBitsizeFloat == pc = "float_bits" /\ Commit(collect_bitsize_float(P)) /\ UNCHANGED <<calls, codecVars>>

CollectInteger == pc = "integer" /\ Commit(collect_integer_loop(P)) /\ UNCHANGED <<calls, codecVars>>

CollectEnumOpen == pc = "enum_open" /\ Commit(collect_enum_open(P)) /\ UNCHANGED <<calls, codecVars>>

CollectEnumWord == pc = "enum_word" /\ Commit(collect_enum_word(P)) /\ UNCHANGED <<calls, codecVars>>

CollectEnumSep == pc = "enum_sep" /\ Commit(collect_enum_sep(P)) /\ UNCHANGED <<calls, codecVars>>

ParseFormFieldEnd == pc = "field_end" /\ Commit(parse_form_field_end(P)) /\ UNCHANGED <<calls, codecVars>>

\* the steps of a running call
\* collect_float() called on the instance between two parse_form calls
CollectFloat ==
    /\ pc = "idle"
    /\ Commit(collect_float(P))
    /\ UNCHANGED <<calls, codecVars>>

ParserStep ==
    \/ ParseFormLoop
    \/ CollectWord
    \/ ExpectColon
    \/ CollectTypeAndValue
    \/ CollectBitsizeInteger
    \/ CollectBitsizeFloat
    \/ CollectInteger
    \/ CollectEnumOpen
    \/ CollectEnumWord
    \/ CollectEnumSep
    \/ ParseFormFieldEnd

(***************************************************************************)
(* Form.encode and Form.decode as a state machine.                         *)
(***************************************************************************)
CodecIdle ==
    /\ fields = <<>>
    /\ inputs = <<>>
    /\ value = <<>>
    /\ epc = "idle"
    /\ buf = <<>>
    /\ offset = 0
    /\ obj = EmptyObj
    /\ didx = 0
    /\ dpc = "idle"

\* Form.encode, lines 71-76: input() is read for the next field and encoded
FormEncodeField ==
    /\ epc = "encoding"
    /\ Len(inputs) < Len(fields)
    /\ \E input \in InputTexts(fields[Len(inputs) + 1]) :
          LET r == Field_encode(fields[Len(inputs) + 1], input)
          IN  /\ inputs' = Append(inputs, input)
              /\ value' = IF r.ok THEN value \o r.bytes ELSE <<>>
              /\ epc' = IF r.ok THEN "encoding" ELSE "error"
    /\ UNCHANGED <<fields, buf, offset, obj, didx, dpc>>
    /\ UNCHANGED parserVars

\* Form.encode, line 77
FormEncodeReturn ==
    /\ epc = "encoding"
    /\ Len(inputs) = Len(fields)
    /\ epc' = "done"
    /\ UNCHANGED <<fields, inputs, value, buf, offset, obj, didx, dpc>>
    /\ UNCHANGED parserVars

\* Form.decode(input), lines 80-81
decode_entry(input) ==
    /\ dpc = "idle"
    /\ buf' = input
    /\ offset' = 0
    /\ obj' = EmptyObj
    /\ didx' = 0
    /\ dpc' = "decoding"
    /\ UNCHANGED <<fields, inputs, value, epc>>
    /\ UNCHANGED parserVars

\* the encoded form is handed back to Form.decode
FormDecodeEncoded == epc = "done" /\ decode_entry(value)

\* any buffer is handed to Form.decode
FormDecodeBuffer == \E b \in Buffers : decode_entry(b)

\* Form.decode, lines 82-87: the next field is decoded at the running offset
FormDecodeField ==
    /\ dpc = "decoding"
    /\ didx < Len(fields)
    /\ LET field == fields[didx + 1]
           r == Field_decode(field, buf, offset)
       IN  IF r.ok
           THEN /\ obj' = Store(obj, field.name, r.val)
                /\ offset' = offset + Advance(field, r.val)
                /\ didx' = didx + 1
                /\ dpc' = "decoding"
           ELSE /\ obj' = EmptyObj
                /\ dpc' = "error"
                /\ UNCHANGED <<offset, didx>>
    /\ UNCHANGED <<fields, inputs, value, epc, buf>>
    /\ UNCHANGED parserVars

\* Form.decode, line 88
FormDecodeReturn ==
    /\ dpc = "decoding"
    /\ didx = Len(fields)
    /\ dpc' = "done"
    /\ UNCHANGED <<fields, inputs, value, epc, buf, offset, obj, didx>>
    /\ UNCHANGED parserVars

(***************************************************************************)
(* Specifications.                                                         *)
(*   Spec       : parse_form calls, one after another, on one FormParser.  *)
(*   FairSpec   : the same, a running call always taking its next step.    *)
(*   CodecSpec  : Form.encode of typed values, then Form.decode of the     *)
(*                encoded bytes.                                           *)
(*   DecodeSpec : Form.decode of any buffer.                               *)
(***************************************************************************)
Init == ParserInit /\ CodecIdle

Next == ParseForm \/ ParserStep \/ CollectFloat

Spec == Init /\ [][Next]_vars

FairSpec == Spec /\ WF_vars(ParserStep)

CodecInit ==
    /\ ParserInit
    /\ fields \in CodecForms
    /\ inputs = <<>>
    /\ value = <<>>
    /\ epc = "encoding"
    /\ buf = <<>>
    /\ offset = 0
    /\ obj = EmptyObj
    /\ didx = 0
    /\ dpc = "idle"

CodecNext ==
    \/ FormEncodeField
    \/ FormEncodeReturn
    \/ FormDecodeEncoded
    \/ FormDecodeField
    \/ FormDecodeReturn

CodecSpec == CodecInit /\ [][CodecNext]_vars

DecodeInit ==
    /\ ParserInit
    /\ fields \in DecodeForms
    /\ inputs = <<>>
    /\ value = <<>>
    /\ epc = "idle"
    /\ buf = <<>>
    /\ offset = 0
    /\ obj = EmptyObj
    /\ didx = 0
    /\ dpc = "idle"

DecodeNext ==
    \/ FormDecodeBuffer
    \/ FormDecodeField
    \/ FormDecodeReturn

DecodeSpec == DecodeInit /\ [][DecodeNext]_vars

(***************************************************************************)
(* Properties of the schema parser.                                        *)
(***************************************************************************)
Last(q) == q[Len(q)]

\* C5: wherever the grammar requires an identifier (the start of the schema, directly
\* after a field-separating ",", each enum item) and the character at the cursor is
\* not a letter, the end of the input included, parse_form fails with an error that
\* reports that cursor position.  (The IndexError that the empty schema raises on
\* entry is counted as such a failure at position 0.)
C5_IdentifierErrors ==
    [][ /\ (calls' = calls + 1 /\ length' = 0)
           => (pc' = "idle" /\ result'.kind \in {"error", "IndexError"}
               /\ result'.position = 0)
        /\ (pc \in {"loop", "enum_word"} /\ (cursor >= length \/ ~isalpha(char)))
           => (pc' = "idle" /\ result'.kind = "error" /\ result'.position = cursor)
      ]_vars

\* C7: whatever calls were made before on the instance, a finished parse_form call
\* has the outcome (the same fields, or the same error) that the same schema has on
\* a newly constructed FormParser.
C7_IdempotentParsing ==
    (pc = "idle" /\ calls > 0) => result = parse_form(source)

\* a later call on a used instance has parsed a schema of two fields
C7_Witness ==
    /\ pc = "idle"
    /\ calls >= 2
    /\ result.kind = "ok"
    /\ Len(result.fields) = 2

\* C9 as claimed: an enum field whose ";" is followed by more text always ends the
\* field list: parse_form returns, without error, the fields up to that enum.
C9_EnumAlwaysTruncates ==
    [][ (pc = "field_end" /\ Last(form).type = "e" /\ cursor < length)
        => (pc' = "idle" /\ result'.kind = "ok" /\ result'.fields = form) ]_vars

\* C9 amended: an enum field whose ";" is followed by more text ends the field list
\* (parse_form returns the fields up to that enum, without error) exactly when the
\* character after the ";" is not ","; after ";," the parse goes on to the next field.
C9_EnumTruncatesUnlessComma ==
    [][ (pc = "field_end" /\ Last(form).type = "e" /\ cursor < length)
        => IF source[cursor + 1] # Ord(",")
           THEN pc' = "idle" /\ result'.kind = "ok" /\ result'.fields = form
           ELSE pc' = "loop" /\ form' = form /\ cursor' = cursor + 1 ]_vars

\* parse_form has returned a field list that ends at an enum field, with the text
\* of a further field left unread behind the "]"
C9_Witness ==
    /\ pc = "idle"
    /\ result.kind = "ok"
    /\ result.fields # <<>>
    /\ Last(result.fields).type = "e"
    /\ cursor + 1 < length
    /\ source[cursor + 1] = Ord("]")
    /\ source[cursor + 2] = Ord(",")

\* C10: in every state of a parse_form call, from its entry to its return or raise,
\* the cursor stays within 0..len(schema); no step of a running call decreases it;
\* and every call ends, returning a form or raising an error.
C10_ForwardOnlyBoundedCursor ==
    /\ [](pc # "idle" => (0 <= cursor /\ cursor <= length /\ length = Len(source)))
    /\ [][ (pc # "idle" \/ calls' = calls + 1)
           => (0 <= cursor' /\ cursor' <= length' /\ length' = Len(source')) ]_vars
    /\ [][pc # "idle" => cursor' >= cursor]_vars
    /\ (pc # "idle") ~> (pc = "idle" /\ result.kind \in {"ok", "error", "ValueError"})

\* a call has read its whole schema and returned
C10_Witness ==
    /\ pc = "idle"
    /\ result.kind = "ok"
    /\ length > 0
    /\ cursor = length

(***************************************************************************)
(* Properties of the codec.                                                *)
(***************************************************************************)
\* a form of Integer, Float and Enum fields only
FixedWidth(fs) == \A i \in 1..Len(fs) : fs[i].type # "s"

DistinctNames(fs) == \A i, j \in 1..Len(fs) : fs[i].name = fs[j].name => i = j

\* the width in bytes of a fixed-width field: bits/8, and for an enum of n items
\* ceil(ceil(log2(n + 1)) / 8)
Width(field) ==
    IF field.type = "e" THEN (ceil_log2(Len(field.items) + 1) + 7) \div 8
    ELSE field.bits \div 8

\* the widths of the first k fields, summed
RECURSIVE SumWidths(_, _)
SumWidths(fs, k) == IF k = 0 THEN 0 ELSE SumWidths(fs, k - 1) + Width(fs[k])

\* the number of bytes Field.encode wrote for the first k fields
RECURSIVE EncodedLen(_, _, _)
EncodedLen(fs, ins, k) ==
    IF k = 0 THEN 0
    ELSE EncodedLen(fs, ins, k - 1) + Len(Field_encode(fs[k], ins[k]).bytes)

\* the value a text denotes for a field
Denoted(field, text) ==
    CASE field.type = "i" -> IntVal(int(text).val)
      [] field.type = "f" -> FloatVal(float(text).val)
      [] field.type = "e" -> StrVal(text)

\* the same, a Float(32) value rounded to the nearest binary32 number
Stored(field, text) ==
    IF field.type = "f" /\ field.bits = 32
    THEN FloatVal(narrow(float(text).val, 32))
    ELSE Denoted(field, text)

\* C1 as claimed: Form.decode of the encoding of a fixed-width form yields, for each
\* field, exactly the value its input text denoted.
C1_RoundTripExact ==
    (dpc = "done" /\ FixedWidth(fields))
    => \A i \in 1..Len(fields) : obj[fields[i].name] = Denoted(fields[i], inputs[i])

\* C1 amended: for a fixed-width form whose field names are pairwise distinct,
\* Form.decode of the encoding yields for each Integer field the same integer, for
\* each Enum field the same label, for each Float(64) field the float the text
\* denotes and for each Float(32) field that float rounded to the nearest binary32
\* number; every field is read at the offset where encode wrote it.
C1_RoundTripRounded ==
    /\ (dpc = "done" /\ FixedWidth(fields) /\ DistinctNames(fields))
       => \A i \in 1..Len(fields) : obj[fields[i].name] = Stored(fields[i], inputs[i])
    /\ (dpc \in {"decoding", "done"} /\ FixedWidth(fields))
       => offset = EncodedLen(fields, inputs, didx)

\* a Float(32) field has come back from the round trip rounded: not the float its
\* text denotes, next to an integer field that came back as typed
C1_Witness ==
    /\ dpc = "done"
    /\ Len(fields) = 2
    /\ DistinctNames(fields)
    /\ fields[1].type = "i"
    /\ obj[fields[1].name] = IntVal(-1)
    /\ fields[2].type = "f"
    /\ fields[2].bits = 32
    /\ obj[fields[2].name] # Denoted(fields[2], inputs[2])
    /\ obj[fields[2].name] = Stored(fields[2], inputs[2])

\* the index of the first NUL byte of input at or after off (zero-based)
NulIndex(input, off) ==
    (CHOOSE k \in (off + 1)..Len(input) :
        input[k] = 0 /\ \A j \in (off + 1)..(k - 1) : input[j] # 0) - 1

\* C2: decoding a String field at byte offset o advances the running offset by
\* (index of the first NUL byte at or after o, minus o) + 1, so that the next field
\* is read at the byte after the NUL terminator.
C2_StringOffsetAdvance ==
    [][ (dpc = "decoding" /\ didx < Len(fields) /\ fields[didx + 1].type = "s"
         /\ didx' = didx + 1)
        => offset' = offset + (NulIndex(buf, offset) - offset) + 1 ]_vars

\* C3: the bytes encoded for fixed-width fields are as many as the sum of the
\* fields' widths, whatever the values: bits/8 for Integer and Float,
\* ceil(ceil(log2(n + 1)) / 8) for an Enum of n items (1 byte for n = 3 and for
\* n = 255, 2 bytes for n = 256), with no padding between fields.
C3_ExactByteLength ==
    /\ (epc \in {"encoding", "done"} /\ FixedWidth(SubSeq(fields, 1, Len(inputs))))
       => Len(value) = SumWidths(fields, Len(inputs))
    /\ (epc = "done" /\ Len(fields) = 1 /\ fields[1].type = "e")
       => /\ Len(fields[1].items) = 3 => Len(value) = 1
          /\ Len(fields[1].items) = 255 => Len(value) = 1
          /\ Len(fields[1].items) = 256 => Len(value) = 2

\* the form a:i16,b:f32 is encoded in 2 + 4 bytes
C3_Witness ==
    /\ epc = "done"
    /\ Len(fields) = 2
    /\ fields[1].type = "i" /\ fields[1].bits = 16
    /\ fields[2].type = "f" /\ fields[2].bits = 32
    /\ Len(value) = 6

\* C4: Field.encode of a String field succeeds on every text and emits the UTF-8
\* bytes of the text followed by one NUL byte, len(utf8(text)) + 1 bytes, also
\* for a text whose UTF-8 encoding has more bytes than the text has characters.
C4_StringEncoding ==
    [][ (epc = "encoding" /\ Len(inputs) < Len(fields)
         /\ fields[Len(inputs) + 1].type = "s")
        => /\ epc' = "encoding"
           /\ utf8_encode(Last(inputs')).ok
           /\ value' = value \o utf8_encode(Last(inputs')).bytes \o <<0>>
           /\ Len(value') = Len(value) + Len(utf8_encode(Last(inputs')).bytes) + 1 ]_vars

\* the bytes of input that remain at off
Remaining(input, off) == IF off >= Len(input) THEN 0 ELSE Len(input) - off

\* the big-endian number in the w bytes of input at off
RECURSIVE BytesValue(_, _, _)
BytesValue(input, off, w) ==
    IF w = 0 THEN 0 ELSE 256 * BytesValue(input, off, w - 1) + input[off + w]

\* the index in the leading ceil(log2(n + 1)) bits of an Enum field at off
LeadingIndex(field, input, off) ==
    BytesValue(input, off, Width(field))
        \div Pow2(8 * Width(field) - ceil_log2(Len(field.items) + 1))

\* the field can be decoded at off: the bytes of its width remain (and give an
\* index below the number of items of an Enum); a NUL byte remains for a String,
\* the bytes before it being UTF-8
CanDecode(field, input, off) ==
    CASE field.type \in {"i", "f"} -> Remaining(input, off) >= Width(field)
      [] field.type = "e" ->
           /\ Remaining(input, off) >= Width(field)
           /\ LeadingIndex(field, input, off) < Len(field.items)
      [] field.type = "s" ->
           \E k \in (off + 1)..Len(input) :
              /\ input[k] = 0
              /\ \A j \in (off + 1)..(k - 1) : input[j] # 0
              /\ utf8_decode(SubSeq(input, off + 1, k - 1)).ok

\* C6: Form.decode returns a mapping with a value for every field, or fails and
\* returns no mapping; it fails at the first field in declaration order that cannot
\* be decoded at its offset, and decodes no field after that one.
C6_AllOrNothing ==
    /\ [](dpc = "done" => \A i \in 1..Len(fields) : fields[i].name \in DOMAIN obj)
    /\ [](dpc = "error" => /\ obj = EmptyObj
                           /\ didx < Len(fields)
                           /\ ~CanDecode(fields[didx + 1], buf, offset)
                           /\ \A i \in 1..didx : fields[i].name \notin DOMAIN obj)
    /\ [][ (dpc = "decoding" /\ didx < Len(fields))
           => IF CanDecode(fields[didx + 1], buf, offset)
              THEN dpc' = "decoding" /\ didx' = didx + 1
                   /\ fields[didx + 1].name \in DOMAIN obj'
              ELSE dpc' = "error" /\ didx' = didx /\ obj' = EmptyObj ]_vars
    /\ [][dpc = "error" => (dpc' = "error" /\ didx' = didx /\ obj' = obj)]_vars

\* the first field was decoded, the second could not be: nothing is returned
C6_Witness ==
    /\ dpc = "error"
    /\ didx = 1
    /\ obj = EmptyObj
    /\ Len(fields) = 2
    /\ ~CanDecode(fields[2], buf, offset)

\* C8: for an enum of n >= 1 items, Form.decode advances its offset past the field
\* by as many bytes as Field.encode wrote for the value.
C8_EnumWidthConsistency ==
    [][ (dpc = "decoding" /\ didx < Len(fields) /\ fields[didx + 1].type = "e"
         /\ didx' = didx + 1)
        => offset' - offset = Len(Field_encode(fields[didx + 1], inputs[didx + 1]).bytes)
      ]_vars

\* an enum of 256 items, written in two bytes, was decoded and the offset is two
C8_Witness ==
    /\ dpc = "done"
    /\ Len(fields) = 1
    /\ fields[1].type = "e"
    /\ Len(fields[1].items) = 256
    /\ Len(value) = 2
    /\ offset = 2

====
